---- MODULE Spec2Model ----
(***************************************************************************)
(* State-machine model of VoxelEngine (src/services/VoxelEngine.ts), of   *)
(* the observer that App.tsx attaches to it, and of the handlers of        *)
(* App.tsx that feed it: pointer moves, clicks, JSON import and the        *)
(* mapping of a generated response.                                        *)
(*                                                                         *)
(* Numbers.  The engine works on IEEE doubles.  Lengths, velocities and    *)
(* angles are modelled in fixed point, Scale units per 1.0, products with  *)
(* a decimal factor truncated toward zero.  Colour distances are compared  *)
(* through their exact squares on the integer channel differences.         *)
(* Times are integer milliseconds; a start delay is kept in 1/75 ms so     *)
(* that h * 800 stays exact.                                               *)
(***************************************************************************)
EXTENDS Integers, Sequences, FiniteSets, TLC

VARIABLES
  voxels,            \* SimulationVoxel[]            (VoxelEngine.voxels)
  rebuildTargets,    \* RebuildTarget[]              (VoxelEngine.rebuildTargets)
  rebuildStartTime,  \* ms                           (VoxelEngine.rebuildStartTime)
  state,             \* AppState                     (VoxelEngine.state)
  now,               \* the wall clock read by Date.now()
  appState,          \* observer: last state delivered by onStateChange
  voxelCount,        \* observer: last count delivered by onCountChange
  op,                \* name of the last public operation or frame executed
  arg,               \* the list passed to the last loadInitialModel or accepted rebuild
  notes,             \* states delivered by onStateChange during that operation
  scatterTicks,      \* frames run in the current Dismantling phase
  commands,          \* public operations called so far
  isEditMode,        \* VoxelEngine.isEditMode, in step with App's isEditMode
  ghostVisible,      \* ghostMesh.visible
  lastGhostPos,      \* VoxelEngine.lastGhostPos
  buildTool,         \* App's buildTool: "add" or "delete"
  hitKind,           \* what the last updateGhost found nearest: none, floor or voxel
  picked,            \* the target snapped to by the last updateGhost since edit
                     \* mode was last switched: a set of at most one coordinate
  autoRotate,        \* controls.autoRotate
  drawn              \* what the last draw() uploaded to the InstancedMesh

pickVars == <<isEditMode, ghostVisible, lastGhostPos, buildTool, hitKind, picked>>

renderVars == <<autoRotate, drawn>>

vars == <<voxels, rebuildTargets, rebuildStartTime, state, now, appState,
          voxelCount, op, arg, notes, scatterTicks, commands, pickVars, renderVars>>

----------------------------------------------------------------------------
(* Bounds of the model *)

MaxVoxels == 2
MaxScatterTicks == 2
MaxCommands == 2
MaxSettleTicks == 150

----------------------------------------------------------------------------
(* Numeric representation *)

Scale == 1000

Max(a, b) == IF a >= b THEN a ELSE b
Min(a, b) == IF a <= b THEN a ELSE b

\* n / d for doubles, truncated toward zero in fixed point
Trunc(n, d) == IF n >= 0 THEN n \div d ELSE -((-n) \div d)

\* IEEE +Infinity, as JSON.parse("1e999") yields it; larger than every
\* finite value of the model and absorbing in DelayOf
Infinity == 1000000 * Scale

\* IEEE NaN, and every value that is not a number where the engine expects
\* one (arithmetic on it yields NaN): below every number of the model
NaN == 0 - 2 * Infinity

FLOOR_Y == (-12) * Scale
HALF_VOXEL == Scale \div 2

STABLE == "STABLE"
DISMANTLING == "DISMANTLING"
REBUILDING == "REBUILDING"

----------------------------------------------------------------------------
(* THREE.Color: the three channels of a packed hex value *)

ColorOfHex(hex) ==
  LET h == hex % 16777216
  IN  [r |-> h \div 65536, g |-> (h \div 256) % 256, b |-> h % 256]

\* mutant: the channels packed in the order blue, green, red
GetHexBGR(c) == c.b * 65536 + c.g * 256 + c.r

GetHex(c) == c.r * 65536 + c.g * 256 + c.b

----------------------------------------------------------------------------
(* createVoxels / getVoxelData *)

VoxelOf(v, i) ==
  [id |-> i, x |-> v.x, y |-> v.y, z |-> v.z, color |-> ColorOfHex(v.color),
   vx |-> 0, vy |-> 0, vz |-> 0, rx |-> 0, ry |-> 0, rz |-> 0,
   rvx |-> 0, rvy |-> 0, rvz |-> 0]

CreateVoxels(data) == [i \in 1..Len(data) |-> VoxelOf(data[i], i - 1)]

GetVoxelData(vs) ==
  [i \in 1..Len(vs) |->
     [x |-> vs[i].x, y |-> vs[i].y, z |-> vs[i].z, color |-> GetHex(vs[i].color)]]

----------------------------------------------------------------------------
(* getColorDist and the matcher of rebuild() *)

W_RED == 30
W_GREEN == 59
W_BLUE == 11

\* The square of getColorDist(c1, hex2), in units of 1 / (100 * 255)^2.
\* sqrt is monotonic, so d1 < d2 is decided on the squares.
ColorDistSq(c1, hex2) ==
  LET c2 == ColorOfHex(hex2)
      r  == (c1.r - c2.r) * W_RED
      g  == (c1.g - c2.g) * W_GREEN
      b  == (c1.b - c2.b) * W_BLUE
  IN  r * r + g * g + b * b

\* bestDist = 9999 lies above every distance (at most 0.69): the largest
\* representable square stands for it
INIT_BEST_DIST == 2147483647

\* d < 0.01  <=>  d^2 * (100 * 255)^2 < 255^2
NEAR_EXACT_SQ == 65025

\* mutant: the early exit taken below 0.1 instead of 0.01
EarlyExitLoose(d) == d < 100 * NEAR_EXACT_SQ

EarlyExit(d) == d < NEAR_EXACT_SQ

\* mutant: the scan does not skip taken sources
RECURSIVE ScanBestIgnoresTaken(_, _, _, _, _, _)
ScanBestIgnoresTaken(available, taken, hex, i, bestDist, bestIdx) ==
  IF i > Len(available) THEN bestIdx
  ELSE LET d == ColorDistSq(available[i], hex)
       IN  IF d < bestDist
           THEN IF EarlyExit(d) THEN i
                ELSE ScanBestIgnoresTaken(available, taken, hex, i + 1, d, i)
           ELSE ScanBestIgnoresTaken(available, taken, hex, i + 1, bestDist, bestIdx)

\* mutant: d <= bestDist, so the last of several equally close sources wins
RECURSIVE ScanBestLastTie(_, _, _, _, _, _)
ScanBestLastTie(available, taken, hex, i, bestDist, bestIdx) ==
  IF i > Len(available) THEN bestIdx
  ELSE IF i \in taken THEN ScanBestLastTie(available, taken, hex, i + 1, bestDist, bestIdx)
  ELSE LET d == ColorDistSq(available[i], hex)
       IN  IF d <= bestDist
           THEN IF EarlyExit(d) THEN i
                ELSE ScanBestLastTie(available, taken, hex, i + 1, d, i)
           ELSE ScanBestLastTie(available, taken, hex, i + 1, bestDist, bestIdx)

\* the inner for loop over available[]; bestIdx 0 stands for -1
RECURSIVE ScanBest(_, _, _, _, _, _)
ScanBest(available, taken, hex, i, bestDist, bestIdx) ==
  IF i > Len(available) THEN bestIdx
  ELSE IF i \in taken THEN ScanBest(available, taken, hex, i + 1, bestDist, bestIdx)
  ELSE LET d == ColorDistSq(available[i], hex)
       IN  IF d < bestDist
           THEN IF EarlyExit(d) THEN i
                ELSE ScanBest(available, taken, hex, i + 1, d, i)
           ELSE ScanBest(available, taken, hex, i + 1, bestDist, bestIdx)

HEIGHT_NORM == 15
MAX_DELAY_MS == 800

\* mutant: the height above the floor is not clamped at 0
DelayOfUnclamped(y) ==
  IF y = Infinity THEN Infinity
  ELSE IF y = NaN THEN NaN
  ELSE (y - FLOOR_Y) * MAX_DELAY_MS

\* h * 800 with h = Math.max(0, (y - FLOOR_Y) / 15), in 1 / (15 * Scale) ms
\* (Math.max(0, NaN) is NaN)
DelayOf(y) ==
  IF y = Infinity THEN Infinity
  ELSE IF y = NaN THEN NaN
  ELSE Max(0, y - FLOOR_Y) * MAX_DELAY_MS

\* elapsed < t.delay (false for a delay of NaN)
BeforeDelay(elapsed, delay) ==
  /\ delay # NaN
  /\ delay = Infinity \/ elapsed * HEIGHT_NORM * Scale < delay

MatchedTarget(target) ==
  [x |-> target.x, y |-> target.y, z |-> target.z,
   isRubble |-> FALSE, delay |-> DelayOf(target.y)]

RubbleTarget(v) ==
  [x |-> v.x, y |-> v.y, z |-> v.z, isRubble |-> TRUE, delay |-> 0]

\* targetModel.forEach: m maps the taken source indices to their targets
RECURSIVE MatchFrom(_, _, _, _)
MatchFrom(available, targetModel, j, m) ==
  IF j > Len(targetModel) THEN m
  ELSE LET bestIdx == ScanBest(available, DOMAIN m, targetModel[j].color,
                               1, INIT_BEST_DIST, 0)
       IN  IF bestIdx # 0
           THEN MatchFrom(available, targetModel, j + 1,
                          m @@ (bestIdx :> MatchedTarget(targetModel[j])))
           ELSE MatchFrom(available, targetModel, j + 1, m)

\* the table rebuild() stores: matched entries, then rubble for the rest
Mappings(vs, targetModel) ==
  LET available == [i \in 1..Len(vs) |-> vs[i].color]
      m == MatchFrom(available, targetModel, 1, <<>>)
  IN  [i \in 1..Len(vs) |-> IF i \in DOMAIN m THEN m[i] ELSE RubbleTarget(vs[i])]

----------------------------------------------------------------------------
(* updatePhysics: one voxel, one frame *)

GRAVITY == (25 * Scale) \div 1000
CONVERGED_SQ == (Scale * Scale) \div 100

\* mutant: the floor reflects without damping anything
StepScatterElastic(v) ==
  LET vy1 == v.vy - GRAVITY
      y1  == v.y + vy1
      hit == y1 < FLOOR_Y + HALF_VOXEL
  IN  [v EXCEPT
         !.x   = v.x + v.vx,
         !.y   = IF hit THEN FLOOR_Y + HALF_VOXEL ELSE y1,
         !.z   = v.z + v.vz,
         !.rx  = v.rx + v.rvx,
         !.ry  = v.ry + v.rvy,
         !.rz  = v.rz + v.rvz,
         !.vy  = IF hit THEN -vy1 ELSE vy1]

\* mutant: the floor test reads the height the voxel had before the frame
StepScatterTestsBefore(v) ==
  LET vy1 == v.vy - GRAVITY
      y1  == v.y + vy1
      hit == v.y < FLOOR_Y + HALF_VOXEL
  IN  [v EXCEPT
         !.x   = v.x + v.vx,
         !.y   = IF hit THEN FLOOR_Y + HALF_VOXEL ELSE y1,
         !.z   = v.z + v.vz,
         !.rx  = v.rx + v.rvx,
         !.ry  = v.ry + v.rvy,
         !.rz  = v.rz + v.rvz,
         !.vy  = IF hit THEN Trunc(vy1 * (-5), 10) ELSE vy1,
         !.vx  = IF hit THEN Trunc(v.vx * 9, 10) ELSE v.vx,
         !.vz  = IF hit THEN Trunc(v.vz * 9, 10) ELSE v.vz,
         !.rvx = IF hit THEN Trunc(v.rvx * 8, 10) ELSE v.rvx,
         !.rvy = IF hit THEN Trunc(v.rvy * 8, 10) ELSE v.rvy,
         !.rvz = IF hit THEN Trunc(v.rvz * 8, 10) ELSE v.rvz]

\* the Dismantling branch
StepScatter(v) ==
  LET vy1 == v.vy - GRAVITY
      y1  == v.y + vy1
      hit == y1 < FLOOR_Y + HALF_VOXEL
  IN  [v EXCEPT
         !.x   = v.x + v.vx,
         !.y   = IF hit THEN FLOOR_Y + HALF_VOXEL ELSE y1,
         !.z   = v.z + v.vz,
         !.rx  = v.rx + v.rvx,
         !.ry  = v.ry + v.rvy,
         !.rz  = v.rz + v.rvz,
         !.vy  = IF hit THEN Trunc(vy1 * (-5), 10) ELSE vy1,
         !.vx  = IF hit THEN Trunc(v.vx * 9, 10) ELSE v.vx,
         !.vz  = IF hit THEN Trunc(v.vz * 9, 10) ELSE v.vz,
         !.rvx = IF hit THEN Trunc(v.rvx * 8, 10) ELSE v.rvx,
         !.rvy = IF hit THEN Trunc(v.rvy * 8, 10) ELSE v.rvy,
         !.rvz = IF hit THEN Trunc(v.rvz * 8, 10) ELSE v.rvz]

\* cur += (target - cur) * 0.12
Ease(cur, target) == cur + Trunc((target - cur) * 12, 100)

DistSq(v, t) ==
  (t.x - v.x) * (t.x - v.x) + (t.y - v.y) * (t.y - v.y) + (t.z - v.z) * (t.z - v.z)

Converged(v, t) == ~(DistSq(v, t) > CONVERGED_SQ)

\* mutant: every matched voxel starts at once
StepRebuildNoDelay(v, t, elapsed) ==
  IF t.isRubble THEN [v |-> v, done |-> TRUE]
  ELSE LET e == [v EXCEPT !.x = Ease(v.x, t.x), !.y = Ease(v.y, t.y),
                          !.z = Ease(v.z, t.z), !.rx = Ease(v.rx, 0),
                          !.ry = Ease(v.ry, 0), !.rz = Ease(v.rz, 0)]
       IN  IF Converged(e, t)
           THEN [v |-> [e EXCEPT !.x = t.x, !.y = t.y, !.z = t.z,
                                 !.rx = 0, !.ry = 0, !.rz = 0],
                 done |-> TRUE]
           ELSE [v |-> e, done |-> FALSE]

\* mutant: rubble is eased like a matched voxel
StepRebuildNoRubbleSkip(v, t, elapsed) ==
  IF BeforeDelay(elapsed, t.delay) THEN [v |-> v, done |-> FALSE]
  ELSE LET e == [v EXCEPT !.x = Ease(v.x, t.x), !.y = Ease(v.y, t.y),
                          !.z = Ease(v.z, t.z), !.rx = Ease(v.rx, 0),
                          !.ry = Ease(v.ry, 0), !.rz = Ease(v.rz, 0)]
       IN  IF Converged(e, t)
           THEN [v |-> [e EXCEPT !.x = t.x, !.y = t.y, !.z = t.z,
                                 !.rx = 0, !.ry = 0, !.rz = 0],
                 done |-> TRUE]
           ELSE [v |-> e, done |-> FALSE]

\* mutant: a converged voxel is not snapped onto its target
StepRebuildNoSnap(v, t, elapsed) ==
  IF t.isRubble THEN [v |-> v, done |-> TRUE]
  ELSE IF BeforeDelay(elapsed, t.delay) THEN [v |-> v, done |-> FALSE]
  ELSE LET e == [v EXCEPT !.x = Ease(v.x, t.x), !.y = Ease(v.y, t.y),
                          !.z = Ease(v.z, t.z), !.rx = Ease(v.rx, 0),
                          !.ry = Ease(v.ry, 0), !.rz = Ease(v.rz, 0)]
       IN  [v |-> e, done |-> Converged(e, t)]

\* the Rebuilding branch: the voxel after the frame, and whether it leaves
\* allDone as it was
StepRebuild(v, t, elapsed) ==
  IF t.isRubble THEN [v |-> v, done |-> TRUE]
  ELSE IF BeforeDelay(elapsed, t.delay) THEN [v |-> v, done |-> FALSE]
  ELSE LET e == [v EXCEPT !.x = Ease(v.x, t.x), !.y = Ease(v.y, t.y),
                          !.z = Ease(v.z, t.z), !.rx = Ease(v.rx, 0),
                          !.ry = Ease(v.ry, 0), !.rz = Ease(v.rz, 0)]
       IN  IF Converged(e, t)
           THEN [v |-> [e EXCEPT !.x = t.x, !.y = t.y, !.z = t.z,
                                 !.rx = 0, !.ry = 0, !.rz = 0],
                 done |-> TRUE]
           ELSE [v |-> e, done |-> FALSE]

----------------------------------------------------------------------------
(* Inputs *)

Cell(x, y, z, hex) == [x |-> x * Scale, y |-> y * Scale, z |-> z * Scale, color |-> hex]

RED == 255 * 65536
BLUE == 255 + 0 * 65536
GRAY == 204 * 65536 + 204 * 256 + 204
WHITE == 255 * 65536 + 255 * 256 + 255

DataCells == {Cell(0, 0, 0, RED), Cell(1, 0, 0, BLUE)}

SeqsUpTo(S, n) == UNION {[1..k -> S] : k \in 0..n}

DataLists == SeqsUpTo(DataCells, MaxVoxels)

\* the lists passed to loadInitialModel after the first load
ReloadLists ==
  { <<>>,
    <<Cell(1, 0, 0, BLUE)>>,
    <<Cell(0, 0, 0, RED), Cell(1, 0, 0, BLUE)>> }

InfCell == [x |-> 0, y |-> Infinity, z |-> 0, color |-> RED]

TargetLists ==
  { <<>>,
    <<Cell(1, 0, 0, RED)>>,
    <<Cell(0, 1, 0, BLUE), Cell(1, 0, 0, RED)>>,
    <<Cell(1, 0, 0, RED), Cell(0, -12, 0, RED), Cell(0, 1, 0, BLUE), Cell(2, 0, 0, BLUE)>>,
    <<InfCell, Cell(1, 0, 0, RED)>> }

\* values of Math.random() mapped through the seed formulas of dismantle()
Seeds ==
  { [vx |-> -400, vy |-> 0,   vz |-> 0,    rvx |-> -100, rvy |-> 0,   rvz |-> 0],
    [vx |-> 200,  vy |-> 450, vz |-> -100, rvx |-> 50,   rvy |-> -50, rvz |-> 99] }

EditPositions == {[x |-> 0, y |-> 0, z |-> 0], [x |-> 2 * Scale, y |-> 0, z |-> 0]}

EditPicks == EditPositions \cup {[x |-> Scale, y |-> 0, z |-> 0]}

\* values of App's selectedColor
EditColors == {BLUE, GRAY}

----------------------------------------------------------------------------
(* Operations *)

Origin == [x |-> 0, y |-> 0, z |-> 0]

\* no intersection: intersects.length = 0
NoHit == [kind |-> "none", point |-> Origin, normal |-> Origin]

\* the picker as the constructor leaves it, and App's initial edit state
PickerConstructed ==
  /\ isEditMode = FALSE
  /\ ghostVisible = FALSE
  /\ lastGhostPos = Origin
  /\ buildTool = "add"
  /\ hitKind = "none"
  /\ picked = {}

\* draw(): the matrix (position and rotation) and the colour uploaded for
\* every voxel
Draw(vs) ==
  [i \in 1..Len(vs) |->
     [position |-> <<vs[i].x, vs[i].y, vs[i].z>>,
      rotation |-> <<vs[i].rx, vs[i].ry, vs[i].rz>>,
      color    |-> vs[i].color]]

\* the camera control as the constructor leaves it, and the upload of the
\* draw() that ended the first load
FirstDrawn ==
  /\ autoRotate = TRUE
  /\ drawn = Draw(voxels)

\* The engine as App's mount effect leaves it: constructed, then a first
\* model loaded.
Init ==
  /\ \E data \in DataLists \ {<<>>} : voxels = CreateVoxels(data) /\ arg = data
  /\ rebuildTargets = <<>>
  /\ rebuildStartTime = 0
  /\ state = STABLE
  /\ now = 0
  /\ appState = STABLE
  /\ voxelCount = Len(voxels)
  /\ op = "loadInitialModel"
  /\ notes = <<STABLE>>
  /\ scatterTicks = 0
  /\ commands = 0
  /\ PickerConstructed
  /\ FirstDrawn

\* a call of a public operation by the application
Called(name) ==
  /\ commands < MaxCommands
  /\ commands' = commands + 1
  /\ op' = name

\* an operation that returns before touching anything
Ignored ==
  /\ notes' = <<>>
  /\ UNCHANGED <<voxels, rebuildTargets, rebuildStartTime, state, now, appState,
                 voxelCount, arg, scatterTicks, pickVars, renderVars>>

\* draw() ends with instanceMesh.instanceColor!.needsUpdate = true.  An
\* InstancedMesh has no instanceColor (null) until its first setColorAt, and
\* draw() calls setColorAt once per voxel: over an empty store the assignment
\* dereferences null and draw() throws a TypeError.
DrawThrows(vs) == Len(vs) = 0

\* The body of loadInitialModel.  createVoxels replaces the voxel array and
\* then draws; when draw() throws, the call is left before onCountChange,
\* before the state is reset and before onStateChange.
Load(data) ==
  /\ arg' = data
  /\ voxels' = CreateVoxels(data)
  /\ IF DrawThrows(voxels')
     THEN /\ notes' = <<>>
          /\ UNCHANGED <<voxelCount, state, appState, scatterTicks>>
     ELSE /\ voxelCount' = Len(voxels')
          /\ state' = STABLE
          /\ appState' = STABLE
          /\ notes' = <<STABLE>>
          /\ scatterTicks' = 0
  /\ drawn' = Draw(voxels')
  /\ UNCHANGED <<rebuildTargets, rebuildStartTime, now, pickVars, autoRotate>>

LoadInitialModel(data) ==
  /\ Called("loadInitialModel")
  /\ Load(data)

\* mutant: no test for an occupied cell
AddVoxelNoCheck(pos, colorHex) ==
  LET newData == GetVoxelData(voxels)
  IN  /\ Called("addVoxel")
      /\ Len(voxels) < MaxVoxels
      /\ Load(Append(newData,
                  [x |-> pos.x, y |-> pos.y, z |-> pos.z, color |-> colorHex]))

AddVoxel(pos, colorHex) ==
  LET newData == GetVoxelData(voxels)
      exists  == \E i \in 1..Len(newData) :
                   newData[i].x = pos.x /\ newData[i].y = pos.y /\ newData[i].z = pos.z
  IN  /\ Called("addVoxel")
      /\ IF exists THEN Ignored
         ELSE /\ Len(voxels) < MaxVoxels
              /\ Load(Append(newData,
                          [x |-> pos.x, y |-> pos.y, z |-> pos.z, color |-> colorHex]))

\* mutant: only the first voxel at pos is removed
RemoveVoxelFirstOnly(pos) ==
  LET hits    == {i \in 1..Len(voxels) : <<voxels[i].x, voxels[i].y, voxels[i].z>>
                                           = <<pos.x, pos.y, pos.z>>}
      first   == CHOOSE i \in hits : \A k \in hits : i <= k
      keep    == [i \in 1..(Len(voxels) - 1) |->
                    IF i < first THEN voxels[i] ELSE voxels[i + 1]]
  IN  /\ Called("removeVoxel")
      /\ IF hits = {} THEN Ignored ELSE Load(GetVoxelData(keep))

RemoveVoxel(pos) ==
  LET keep    == SelectSeq(voxels,
                   LAMBDA v : ~(v.x = pos.x /\ v.y = pos.y /\ v.z = pos.z))
      newData == GetVoxelData(keep)
  IN  /\ Called("removeVoxel")
      /\ IF Len(newData) = Len(voxels) THEN Ignored ELSE Load(newData)

Seeded(v, s) ==
  [v EXCEPT !.vx = s.vx, !.vy = s.vy, !.vz = s.vz,
            !.rvx = s.rvx, !.rvy = s.rvy, !.rvz = s.rvz]

\* mutant: no guard on the state
DismantleUnguarded ==
  /\ Called("dismantle")
  /\ \E s \in [1..Len(voxels) -> Seeds] :
       /\ state' = DISMANTLING
       /\ appState' = DISMANTLING
       /\ notes' = <<DISMANTLING>>
       /\ voxels' = [i \in 1..Len(voxels) |-> Seeded(voxels[i], s[i])]
       /\ scatterTicks' = 0
       /\ UNCHANGED <<rebuildTargets, rebuildStartTime, now, voxelCount, arg,
                      pickVars, renderVars>>

\* mutant: the transition to Dismantling is not notified
DismantleSilent ==
  /\ Called("dismantle")
  /\ IF state # STABLE THEN Ignored
     ELSE \E s \in [1..Len(voxels) -> Seeds] :
            /\ state' = DISMANTLING
            /\ notes' = <<>>
            /\ voxels' = [i \in 1..Len(voxels) |-> Seeded(voxels[i], s[i])]
            /\ scatterTicks' = 0
            /\ UNCHANGED <<rebuildTargets, rebuildStartTime, now, voxelCount, arg,
                           appState, pickVars, renderVars>>

Dismantle ==
  /\ Called("dismantle")
  /\ IF state # STABLE THEN Ignored
     ELSE \E s \in [1..Len(voxels) -> Seeds] :
            /\ state' = DISMANTLING
            /\ appState' = DISMANTLING
            /\ notes' = <<DISMANTLING>>
            /\ voxels' = [i \in 1..Len(voxels) |-> Seeded(voxels[i], s[i])]
            /\ scatterTicks' = 0
            /\ UNCHANGED <<rebuildTargets, rebuildStartTime, now, voxelCount, arg,
                           pickVars, renderVars>>

\* mutant: a rebuild in progress is retargeted
RebuildRetargets(targetModel) ==
  /\ Called("rebuild")
  /\ arg' = targetModel
  /\ rebuildTargets' = Mappings(voxels, targetModel)
  /\ rebuildStartTime' = now
  /\ state' = REBUILDING
  /\ appState' = REBUILDING
  /\ notes' = <<REBUILDING>>
  /\ scatterTicks' = 0
  /\ UNCHANGED <<voxels, now, voxelCount, pickVars, renderVars>>

\* the body of rebuild()
RebuildBody(targetModel) ==
  IF state = REBUILDING THEN Ignored
  ELSE /\ arg' = targetModel
       /\ rebuildTargets' = Mappings(voxels, targetModel)
       /\ rebuildStartTime' = now
       /\ state' = REBUILDING
       /\ appState' = REBUILDING
       /\ notes' = <<REBUILDING>>
       /\ scatterTicks' = 0
       /\ UNCHANGED <<voxels, now, voxelCount, pickVars, renderVars>>

Rebuild(targetModel) ==
  /\ Called("rebuild")
  /\ RebuildBody(targetModel)

\* mutant: a scatter whose voxels all lie on the floor ends in Stable
FrameSettles(limit) ==
  /\ op' = "tick"
  /\ CASE state = DISMANTLING ->
            /\ scatterTicks < limit
            /\ voxels' = [i \in 1..Len(voxels) |-> StepScatter(voxels[i])]
            /\ scatterTicks' = scatterTicks + 1
            /\ IF \A i \in 1..Len(voxels) : voxels'[i].y = FLOOR_Y + HALF_VOXEL
               THEN /\ state' = STABLE
                    /\ appState' = STABLE
                    /\ notes' = <<STABLE>>
               ELSE /\ notes' = <<>>
                    /\ UNCHANGED <<state, appState>>
       [] OTHER ->
            /\ notes' = <<>>
            /\ UNCHANGED <<voxels, state, appState, scatterTicks>>
  /\ IF state' # STABLE \/ autoRotate \/ isEditMode
     THEN drawn' = Draw(voxels')
     ELSE UNCHANGED drawn
  /\ UNCHANGED <<rebuildTargets, rebuildStartTime, now, voxelCount, arg, commands,
                 pickVars, autoRotate>>

\* mutant: the Rebuilding branch is not an else-branch of the Dismantling
\* one; a frame in Rebuilding integrates the scatter first
FrameBothBranches(limit) ==
  /\ op' = "tick"
  /\ CASE state = DISMANTLING ->
            /\ scatterTicks < limit
            /\ voxels' = [i \in 1..Len(voxels) |-> StepScatter(voxels[i])]
            /\ scatterTicks' = scatterTicks + 1
            /\ notes' = <<>>
            /\ UNCHANGED <<state, appState>>
       [] state = REBUILDING ->
            LET elapsed == now - rebuildStartTime
                r == [i \in 1..Len(voxels) |->
                        StepRebuild(StepScatter(voxels[i]), rebuildTargets[i], elapsed)]
                allDone == \A i \in 1..Len(voxels) : r[i].done
            IN  /\ voxels' = [i \in 1..Len(voxels) |-> r[i].v]
                /\ IF allDone
                   THEN /\ state' = STABLE
                        /\ appState' = STABLE
                        /\ notes' = <<STABLE>>
                   ELSE /\ notes' = <<>>
                        /\ UNCHANGED <<state, appState>>
                /\ UNCHANGED scatterTicks
       [] OTHER ->
            /\ notes' = <<>>
            /\ UNCHANGED <<voxels, state, appState, scatterTicks>>
  /\ IF state' # STABLE \/ autoRotate \/ isEditMode
     THEN drawn' = Draw(voxels')
     ELSE UNCHANGED drawn
  /\ UNCHANGED <<rebuildTargets, rebuildStartTime, now, voxelCount, arg, commands,
                 pickVars, autoRotate>>

\* animate(): one frame; at most `limit` frames are run in one Dismantling
\* phase
Frame(limit) ==
  /\ op' = "tick"
  /\ CASE state = DISMANTLING ->
            /\ scatterTicks < limit
            /\ voxels' = [i \in 1..Len(voxels) |-> StepScatter(voxels[i])]
            /\ scatterTicks' = scatterTicks + 1
            /\ notes' = <<>>
            /\ UNCHANGED <<state, appState>>
       [] state = REBUILDING ->
            LET elapsed == now - rebuildStartTime
                r == [i \in 1..Len(voxels) |->
                        StepRebuild(voxels[i], rebuildTargets[i], elapsed)]
                allDone == \A i \in 1..Len(voxels) : r[i].done
            IN  /\ voxels' = [i \in 1..Len(voxels) |-> r[i].v]
                /\ IF allDone
                   THEN /\ state' = STABLE
                        /\ appState' = STABLE
                        /\ notes' = <<STABLE>>
                   ELSE /\ notes' = <<>>
                        /\ UNCHANGED <<state, appState>>
                /\ UNCHANGED scatterTicks
       [] OTHER ->
            /\ notes' = <<>>
            /\ UNCHANGED <<voxels, state, appState, scatterTicks>>
  /\ IF state' # STABLE \/ autoRotate \/ isEditMode
     THEN drawn' = Draw(voxels')
     ELSE UNCHANGED drawn
  /\ UNCHANGED <<rebuildTargets, rebuildStartTime, now, voxelCount, arg, commands,
                 pickVars, autoRotate>>

Tick == Frame(MaxScatterTicks)

\* Time passes between two frames.  Date.now() is read by rebuild() and by
\* the Rebuilding branch only, so the clock is advanced in that phase only,
\* in steps of MAX_DELAY_MS, and no further than the longest finite delay
\* of a target cell (no target of the model lies above FLOOR_Y + 15).
ClockAdvance ==
  /\ state = REBUILDING
  /\ now - rebuildStartTime < MAX_DELAY_MS
  /\ now' = now + MAX_DELAY_MS
  /\ op' = "clock"
  /\ notes' = <<>>
  /\ UNCHANGED <<voxels, rebuildTargets, rebuildStartTime, state, appState,
                 voxelCount, arg, scatterTicks, commands, pickVars, renderVars>>

Next ==
  \/ \E data \in ReloadLists : LoadInitialModel(data)
  \/ \E pos \in EditPositions : AddVoxel(pos, BLUE)
  \/ \E pos \in EditPositions : RemoveVoxel(pos)
  \/ Dismantle
  \/ \E targetModel \in TargetLists : Rebuild(targetModel)
  \/ Tick
  \/ ClockAdvance

Spec == Init /\ [][Next]_vars

FairSpec == Spec /\ WF_vars(Tick) /\ WF_vars(ClockAdvance)

----------------------------------------------------------------------------
(* The matcher on its own: every source colouring and every target         *)
(* colouring up to the bounds, one rebuild() each.  Sources stand at       *)
(* (i, 0, 0), target cells at the distinct coordinates (j, 1, 0).          *)

MaxSources == 3
MaxTargets == 3

\* red; within 0.01 of red; 0.028 and 0.083 from red; blue
MatchPalette == {16711680, 16711696, 16711744, 16711872, 255}

SourceList(cs) == [i \in 1..Len(cs) |-> Cell(i - 1, 0, 0, cs[i])]
TargetList(cs) == [j \in 1..Len(cs) |-> Cell(j - 1, 1, 0, cs[j])]

MatchInit ==
  /\ \E cs \in SeqsUpTo(MatchPalette, MaxSources) :
       /\ arg = SourceList(cs)
       /\ voxels = CreateVoxels(arg)
  /\ rebuildTargets = <<>>
  /\ rebuildStartTime = 0
  /\ state = STABLE
  /\ now = 0
  /\ appState = STABLE
  /\ voxelCount = Len(voxels)
  /\ op = "loadInitialModel"
  /\ notes = <<STABLE>>
  /\ scatterTicks = 0
  /\ commands = 0
  /\ PickerConstructed
  /\ FirstDrawn

\* one rebuild() per behaviour
MatchNext ==
  /\ state = STABLE
  /\ \E cs \in SeqsUpTo(MatchPalette, MaxTargets) : Rebuild(TargetList(cs))

MatchSpec == MatchInit /\ [][MatchNext]_vars

----------------------------------------------------------------------------
(* The start delays on their own: one rebuild() per behaviour, over every  *)
(* list of target heights up to the bound.  All voxels and all target      *)
(* cells are red, so target j is matched to voxel j.                       *)

\* below the floor, on it, half a voxel above it, the origin, and 15 above
\* the floor (where the delay reaches MAX_DELAY_MS)
TargetHeights ==
  { FLOOR_Y - Scale, FLOOR_Y, FLOOR_Y + HALF_VOXEL, 0, FLOOR_Y + HEIGHT_NORM * Scale }

HeightList(ys) == [j \in 1..Len(ys) |-> [x |-> (j - 1) * Scale, y |-> ys[j], z |-> 0, color |-> RED]]

DelayInit ==
  /\ \E n \in 1..MaxSources :
       /\ arg = SourceList([i \in 1..n |-> RED])
       /\ voxels = CreateVoxels(arg)
  /\ rebuildTargets = <<>>
  /\ rebuildStartTime = 0
  /\ state = STABLE
  /\ now = 0
  /\ appState = STABLE
  /\ voxelCount = Len(voxels)
  /\ op = "loadInitialModel"
  /\ notes = <<STABLE>>
  /\ scatterTicks = 0
  /\ commands = 0
  /\ PickerConstructed
  /\ FirstDrawn

DelayNext ==
  /\ state = STABLE
  /\ \E ys \in SeqsUpTo(TargetHeights, MaxTargets) : Rebuild(HeightList(ys))

DelaySpec == DelayInit /\ [][DelayNext]_vars

----------------------------------------------------------------------------
(* Loading and reading back: any list of cells is loaded, possibly         *)
(* scattered for a few frames, and read back with getVoxelData().          *)

\* red at the origin; 0x123456 at (-1.5, 0.25, 3); white below the floor;
\* black at the origin again
RoundTripCells ==
  { Cell(0, 0, 0, RED),
    [x |-> -1500, y |-> 250, z |-> 3 * Scale, color |-> 18 * 65536 + 52 * 256 + 86],
    Cell(1, -13, 0, WHITE),
    Cell(0, 0, 0, 0) }

RoundTripInit ==
  /\ \E data \in SeqsUpTo(RoundTripCells, MaxVoxels) \ {<<>>} :
       voxels = CreateVoxels(data) /\ arg = data
  /\ rebuildTargets = <<>>
  /\ rebuildStartTime = 0
  /\ state = STABLE
  /\ now = 0
  /\ appState = STABLE
  /\ voxelCount = Len(voxels)
  /\ op = "loadInitialModel"
  /\ notes = <<STABLE>>
  /\ scatterTicks = 0
  /\ commands = 0
  /\ PickerConstructed
  /\ FirstDrawn

RoundTripNext ==
  \/ \E data \in SeqsUpTo(RoundTripCells, MaxVoxels) : LoadInitialModel(data)
  \/ Dismantle
  \/ state = DISMANTLING /\ Tick

RoundTripSpec == RoundTripInit /\ [][RoundTripNext]_vars

----------------------------------------------------------------------------
(* The two shape producers of App.tsx: handleJsonImport (pasted JSON) and  *)
(* the response mapping of handlePromptSubmit (generated JSON).            *)
(*                                                                         *)
(* A JSON value is a record [t, n, s]: its typeof (with "null" for null    *)
(* and "undefined" for a missing key), its number, and its characters as a *)
(* sequence of one-character strings.  Coordinates are in fixed point.     *)

JNum(n) == [t |-> "number", n |-> n, s |-> <<>>]
JStr(s) == [t |-> "string", n |-> 0, s |-> s]
JBool(b) == [t |-> "boolean", n |-> IF b THEN 1 ELSE 0, s |-> <<>>]
JUndef == [t |-> "undefined", n |-> 0, s |-> <<>>]
JNull == [t |-> "null", n |-> 0, s |-> <<>>]

JObject(x, y, z, c, color) ==
  [t |-> "object", x |-> x, y |-> y, z |-> z, c |-> c, color |-> color]

\* the array element null: reading a property of it throws a TypeError
JNullRecord ==
  [t |-> "null", x |-> JUndef, y |-> JUndef, z |-> JUndef, c |-> JUndef, color |-> JUndef]

DecDigits == <<"0", "1", "2", "3", "4", "5", "6", "7", "8", "9">>
HexLower == DecDigits \o <<"a", "b", "c", "d", "e", "f">>
HexUpper == DecDigits \o <<"A", "B", "C", "D", "E", "F">>

IsHexDigit(ch) == \E i \in 1..16 : HexLower[i] = ch \/ HexUpper[i] = ch
HexValue(ch) == (CHOOSE i \in 1..16 : HexLower[i] = ch \/ HexUpper[i] = ch) - 1
IsDecDigit(ch) == \E i \in 1..10 : DecDigits[i] = ch
DecValue(ch) == (CHOOSE i \in 1..10 : DecDigits[i] = ch) - 1

\* parseInt(s, 16): the value of the longest prefix of hex digits, NaN when
\* the first character is not one
RECURSIVE ParseHexFrom(_, _, _)
ParseHexFrom(s, i, acc) ==
  IF i > Len(s) \/ ~IsHexDigit(s[i]) THEN acc
  ELSE ParseHexFrom(s, i + 1, acc * 16 + HexValue(s[i]))

ParseInt16(s) ==
  IF s = <<>> \/ ~IsHexDigit(s[1]) THEN NaN ELSE ParseHexFrom(s, 1, 0)

RECURSIVE ParseDecFrom(_, _, _)
ParseDecFrom(s, i, acc) ==
  IF i > Len(s) THEN acc ELSE ParseDecFrom(s, i + 1, acc * 10 + DecValue(s[i]))

\* Number(v) for a coordinate: numbers as they are, null and "" as 0, true
\* as 1, strings of decimal digits as their value, everything else NaN
ToNumber(v) ==
  CASE v.t = "number"  -> v.n
    [] v.t = "null"    -> 0
    [] v.t = "boolean" -> v.n * Scale
    [] v.t = "string"  -> IF \A i \in 1..Len(v.s) : IsDecDigit(v.s[i])
                          THEN ParseDecFrom(v.s, 1, 0) * Scale
                          ELSE NaN
    [] OTHER           -> NaN

\* n || 0
OrZero(n) == IF n = NaN \/ n = 0 THEN 0 ELSE n

\* v is falsy, as a || b tests it
Falsy(v) ==
  \/ v.t \in {"undefined", "null"}
  \/ v.t = "number" /\ v.n \in {0, NaN}
  \/ v.t = "string" /\ v.s = <<>>
  \/ v.t = "boolean" /\ v.n = 0

\* colorVal.startsWith('#') ? colorVal.substring(1) : colorVal
StripHash(s) == IF s # <<>> /\ s[1] = "#" THEN Tail(s) ELSE s

\* mutant: a colour that does not parse is loaded as black
ImportCellBlack(v) ==
  LET colorVal == IF Falsy(v.c) THEN v.color ELSE v.c
      colorInt == CASE colorVal.t = "string" -> ParseInt16(StripHash(colorVal.s))
                    [] colorVal.t = "number" -> colorVal.n
                    [] OTHER                 -> 0
  IN  [x |-> OrZero(ToNumber(v.x)), y |-> OrZero(ToNumber(v.y)),
       z |-> OrZero(ToNumber(v.z)),
       color |-> IF colorInt = NaN THEN 0 ELSE colorInt]

\* the record handleJsonImport makes of one array element
ImportCell(v) ==
  LET colorVal == IF Falsy(v.c) THEN v.color ELSE v.c
      colorInt == CASE colorVal.t = "string" -> ParseInt16(StripHash(colorVal.s))
                    [] colorVal.t = "number" -> colorVal.n
                    [] OTHER                 -> GRAY
  IN  [x |-> OrZero(ToNumber(v.x)), y |-> OrZero(ToNumber(v.y)),
       z |-> OrZero(ToNumber(v.z)),
       color |-> IF colorInt = NaN THEN GRAY ELSE colorInt]

\* what reaches the engine of a coordinate passed on unconverted
Unconverted(v) == IF v.t = "number" THEN v.n ELSE NaN

\* the record the response mapping makes of one array element whose color
\* is a string
PromptCell(v) ==
  LET colorInt == ParseInt16(StripHash(v.color.s))
  IN  [x |-> Unconverted(v.x), y |-> Unconverted(v.y), z |-> Unconverted(v.z),
       color |-> IF colorInt = NaN THEN GRAY ELSE colorInt]

\* the handler's catch block: an alert, the engine untouched
Rejected == Ignored

\* v.c and v.color throw on the array element null
HandleJsonImport(rawData) ==
  /\ Called("handleJsonImport")
  /\ IF \E i \in 1..Len(rawData) : rawData[i].t = "null"
     THEN Rejected
     ELSE Load([i \in 1..Len(rawData) |-> ImportCell(rawData[i])])

\* v.color throws on the array element null, and colorStr.startsWith throws
\* when color is missing or not a string
HandlePromptSubmit(rawData, promptMode) ==
  /\ Called("handlePromptSubmit")
  /\ IF \E i \in 1..Len(rawData) :
          rawData[i].t = "null" \/ rawData[i].color.t # "string"
     THEN Rejected
     ELSE LET voxelData == [i \in 1..Len(rawData) |-> PromptCell(rawData[i])]
          IN  IF promptMode = "create" THEN Load(voxelData) ELSE RebuildBody(voxelData)

MaxBatch == 2

One == JNum(Scale)
Zero == JNum(0)
HexRed == JStr(<<"#", "F", "F", "0", "0", "0", "0">>)
HexBlue == JStr(<<"0", "0", "0", "0", "F", "F">>)

\* a well-formed record; records without a colour, with a colour that is
\* no hex string, with a numeric colour, with the colour under the key c;
\* records without x and with a non-numeric x; and null
RawRecords ==
  { JObject(One, Zero, Zero, JUndef, HexRed),
    JObject(One, Zero, Zero, JUndef, JUndef),
    JObject(One, Zero, Zero, JUndef, JStr(<<"z", "z", "z">>)),
    JObject(One, Zero, Zero, JUndef, JNum(BLUE)),
    JObject(One, Zero, Zero, HexBlue, JUndef),
    JObject(JUndef, Zero, One, JUndef, HexBlue),
    JObject(JStr(<<"a", "b", "c">>), One, Zero, JUndef, HexRed),
    JNullRecord }

RawBatches == SeqsUpTo(RawRecords, MaxBatch)

PromptModes == {"create", "morph"}

ImportInit ==
  /\ \E data \in DataLists \ {<<>>} : voxels = CreateVoxels(data) /\ arg = data
  /\ rebuildTargets = <<>>
  /\ rebuildStartTime = 0
  /\ state = STABLE
  /\ now = 0
  /\ appState = STABLE
  /\ voxelCount = Len(voxels)
  /\ op = "loadInitialModel"
  /\ notes = <<STABLE>>
  /\ scatterTicks = 0
  /\ commands = 0
  /\ PickerConstructed
  /\ FirstDrawn

ImportNext ==
  \/ \E rawData \in RawBatches : HandleJsonImport(rawData)
  \/ \E rawData \in RawBatches, promptMode \in PromptModes :
       HandlePromptSubmit(rawData, promptMode)

ImportSpec == ImportInit /\ [][ImportNext]_vars

----------------------------------------------------------------------------
(* The placement picker: updateGhost, getGhostPosition and the pointer and *)
(* click handlers of App.tsx.  The ray cast is an input: the nearest       *)
(* intersection is none, a point of the floor plane, or a point of a face  *)
(* of a voxel's box, with that face's normal.                              *)

\* Math.round: the nearest integer, halves upward
Round(n) == ((n + Scale \div 2) \div Scale) * Scale

\* half the edge of a voxel's box (VOXEL_SIZE - 0.05)
FACE_OFFSET == HALF_VOXEL - (25 * Scale) \div 1000

Normals ==
  { [x |-> 1, y |-> 0, z |-> 0], [x |-> -1, y |-> 0, z |-> 0],
    [x |-> 0, y |-> 1, z |-> 0], [x |-> 0, y |-> -1, z |-> 0],
    [x |-> 0, y |-> 0, z |-> 1], [x |-> 0, y |-> 0, z |-> -1] }

\* the centre of a face of the box of voxel v
VoxelHit(v, n) ==
  [kind |-> "voxel",
   point |-> [x |-> v.x + n.x * FACE_OFFSET, y |-> v.y + n.y * FACE_OFFSET,
              z |-> v.z + n.z * FACE_OFFSET],
   normal |-> n]

FloorHit(x, z) ==
  [kind |-> "floor", point |-> [x |-> x, y |-> FLOOR_Y, z |-> z], normal |-> Origin]

\* what raycaster.intersectObjects can report first
Hits(vs) ==
  {NoHit}
    \cup {FloorHit(300, -400), FloorHit(2600, 0)}
    \cup {VoxelHit(vs[i], n) : i \in 1..Len(vs), n \in Normals}

\* mutant: in delete mode the floor is snapped to like a voxel
UpdateGhostFloorTarget(mode, hit) ==
  LET pos == IF mode = "add"
             THEN IF hit.kind = "voxel"
                  THEN [x |-> hit.point.x + hit.normal.x * HALF_VOXEL,
                        y |-> hit.point.y + hit.normal.y * HALF_VOXEL,
                        z |-> hit.point.z + hit.normal.z * HALF_VOXEL]
                  ELSE [hit.point EXCEPT !.y = hit.point.y + HALF_VOXEL]
             ELSE hit.point
      rounded == [x |-> Round(pos.x), y |-> Round(pos.y), z |-> Round(pos.z)]
      snapped == IF rounded.y < FLOOR_Y + HALF_VOXEL
                 THEN [rounded EXCEPT !.y = FLOOR_Y + HALF_VOXEL]
                 ELSE rounded
  IN  /\ op' = "updateGhost"
      /\ notes' = <<>>
      /\ IF ~isEditMode
         THEN UNCHANGED <<ghostVisible, lastGhostPos, hitKind, picked>>
         ELSE /\ hitKind' = hit.kind
              /\ IF hit.kind = "none"
                 THEN ghostVisible' = FALSE /\ picked' = {} /\ UNCHANGED lastGhostPos
                 ELSE ghostVisible' = TRUE /\ picked' = {snapped} /\ lastGhostPos' = snapped
      /\ UNCHANGED <<voxels, rebuildTargets, rebuildStartTime, state, now, appState,
                     voxelCount, arg, scatterTicks, commands, isEditMode, buildTool,
                     renderVars>>

UpdateGhost(mode, hit) ==
  LET pos == IF mode = "add"
             THEN IF hit.kind = "voxel"
                  THEN [x |-> hit.point.x + hit.normal.x * HALF_VOXEL,
                        y |-> hit.point.y + hit.normal.y * HALF_VOXEL,
                        z |-> hit.point.z + hit.normal.z * HALF_VOXEL]
                  ELSE [hit.point EXCEPT !.y = hit.point.y + HALF_VOXEL]
             ELSE hit.point
      rounded == [x |-> Round(pos.x), y |-> Round(pos.y), z |-> Round(pos.z)]
      snapped == IF rounded.y < FLOOR_Y + HALF_VOXEL
                 THEN [rounded EXCEPT !.y = FLOOR_Y + HALF_VOXEL]
                 ELSE rounded
  IN  /\ op' = "updateGhost"
      /\ notes' = <<>>
      /\ IF ~isEditMode
         THEN UNCHANGED <<ghostVisible, lastGhostPos, hitKind, picked>>
         ELSE /\ hitKind' = hit.kind
              /\ IF hit.kind = "none" \/ (mode = "delete" /\ hit.kind = "floor")
                 THEN ghostVisible' = FALSE /\ picked' = {} /\ UNCHANGED lastGhostPos
                 ELSE ghostVisible' = TRUE /\ picked' = {snapped} /\ lastGhostPos' = snapped
      /\ UNCHANGED <<voxels, rebuildTargets, rebuildStartTime, state, now, appState,
                     voxelCount, arg, scatterTicks, commands, isEditMode, buildTool,
                     renderVars>>

GetGhostPosition == IF ghostVisible THEN {lastGhostPos} ELSE {}

\* App's effect on isEditMode: engine.setEditMode(isEditMode)
SetEditMode(enabled) ==
  /\ isEditMode' = enabled
  /\ ghostVisible' = enabled
  /\ picked' = {}
  /\ op' = "setEditMode"
  /\ notes' = <<>>
  /\ UNCHANGED <<voxels, rebuildTargets, rebuildStartTime, state, now, appState,
                 voxelCount, arg, scatterTicks, commands, lastGhostPos, buildTool,
                 hitKind, renderVars>>

\* onToggleEdit
ToggleEdit == SetEditMode(~isEditMode)

\* onSetBuildTool: the tool buttons are rendered in edit mode only
SetBuildTool(tool) ==
  /\ isEditMode
  /\ buildTool' = tool
  /\ op' = "setBuildTool"
  /\ notes' = <<>>
  /\ UNCHANGED <<voxels, rebuildTargets, rebuildStartTime, state, now, appState,
                 voxelCount, arg, scatterTicks, commands, isEditMode, ghostVisible,
                 lastGhostPos, hitKind, picked, renderVars>>

HandlePointerMove(hit) ==
  IF isEditMode THEN UpdateGhost(buildTool, hit) ELSE UNCHANGED vars

HandleClick(selectedColor) ==
  IF isEditMode /\ GetGhostPosition # {}
  THEN IF buildTool = "add"
       THEN AddVoxel(lastGhostPos, selectedColor)
       ELSE RemoveVoxel(lastGhostPos)
  ELSE Called("handleClick") /\ Ignored

PickLists ==
  { <<Cell(0, 0, 0, RED)>>,
    <<Cell(0, 0, 0, RED), Cell(1, 0, 0, BLUE)>> }

PickInit ==
  /\ \E data \in PickLists : voxels = CreateVoxels(data) /\ arg = data
  /\ rebuildTargets = <<>>
  /\ rebuildStartTime = 0
  /\ state = STABLE
  /\ now = 0
  /\ appState = STABLE
  /\ voxelCount = Len(voxels)
  /\ op = "loadInitialModel"
  /\ notes = <<STABLE>>
  /\ scatterTicks = 0
  /\ commands = 0
  /\ PickerConstructed
  /\ FirstDrawn

PickNext ==
  \/ ToggleEdit
  \/ \E tool \in {"add", "delete"} : SetBuildTool(tool)
  \/ \E hit \in Hits(voxels) : HandlePointerMove(hit)
  \/ HandleClick(GRAY)

PickSpec == PickInit /\ [][PickNext]_vars

----------------------------------------------------------------------------
(* Editing: stores of one to three voxels, two of which may share a cell,  *)
(* are edited with addVoxel and removeVoxel in every state of the engine.  *)

EditLists ==
  { <<Cell(0, 0, 0, RED)>>,
    <<Cell(1, 0, 0, BLUE)>>,
    <<Cell(0, 0, 0, RED), Cell(1, 0, 0, BLUE)>>,
    <<Cell(0, 0, 0, RED), Cell(1, 0, 0, BLUE), Cell(0, 0, 0, GRAY)>>,
    <<Cell(2, 0, 0, WHITE), Cell(1, 0, 0, BLUE), Cell(0, 0, 0, GRAY)>> }

EditInit ==
  /\ \E data \in EditLists : voxels = CreateVoxels(data) /\ arg = data
  /\ rebuildTargets = <<>>
  /\ rebuildStartTime = 0
  /\ state = STABLE
  /\ now = 0
  /\ appState = STABLE
  /\ voxelCount = Len(voxels)
  /\ op = "loadInitialModel"
  /\ notes = <<STABLE>>
  /\ scatterTicks = 0
  /\ commands = 0
  /\ PickerConstructed
  /\ FirstDrawn

EditNext ==
  \/ \E pos \in EditPicks, colorHex \in EditColors : AddVoxel(pos, colorHex)
  \/ \E pos \in EditPicks : RemoveVoxel(pos)
  \/ Dismantle
  \/ \E targetModel \in TargetLists : Rebuild(targetModel)
  \/ Tick

EditSpec == EditInit /\ [][EditNext]_vars

----------------------------------------------------------------------------
(* The scatter on its own: a store is dismantled and the frames run until  *)
(* every voxel has settled; the phase can be left by any call.             *)

\* a voxel high above the floor; one just above it next to one below it
ScatterLists ==
  { <<Cell(0, 0, 0, RED)>>,
    <<Cell(0, -11, 0, RED), Cell(1, -12, 0, BLUE)>> }

ScatterInit ==
  /\ \E data \in ScatterLists : voxels = CreateVoxels(data) /\ arg = data
  /\ rebuildTargets = <<>>
  /\ rebuildStartTime = 0
  /\ state = STABLE
  /\ now = 0
  /\ appState = STABLE
  /\ voxelCount = Len(voxels)
  /\ op = "loadInitialModel"
  /\ notes = <<STABLE>>
  /\ scatterTicks = 0
  /\ commands = 0
  /\ PickerConstructed
  /\ FirstDrawn

ScatterFrame == state = DISMANTLING /\ Frame(MaxSettleTicks)

\* one Dismantling phase per behaviour
ScatterNext ==
  \/ commands = 0 /\ Dismantle
  \/ ScatterFrame
  \/ state = DISMANTLING /\ Dismantle
  \/ state = DISMANTLING /\ \E targetModel \in TargetLists : Rebuild(targetModel)
  \/ state = DISMANTLING /\ \E data \in ReloadLists : LoadInitialModel(data)
  \/ state = DISMANTLING /\ \E pos \in EditPositions : AddVoxel(pos, BLUE)
  \/ state = DISMANTLING /\ \E pos \in EditPositions : RemoveVoxel(pos)

ScatterSpec == ScatterInit /\ [][ScatterNext]_vars

FairScatterSpec == ScatterSpec /\ WF_vars(ScatterFrame)

----------------------------------------------------------------------------
(* Drawing: the frames of a scatter and of a rebuild with the camera       *)
(* rotating or paused and edit mode on or off.                             *)

\* setAutoRotate
SetAutoRotate(enabled) ==
  /\ autoRotate' = enabled
  /\ op' = "setAutoRotate"
  /\ notes' = <<>>
  /\ UNCHANGED <<voxels, rebuildTargets, rebuildStartTime, state, now, appState,
                 voxelCount, arg, scatterTicks, commands, pickVars, drawn>>

\* handleToggleRotation
ToggleRotation == SetAutoRotate(~autoRotate)

DrawLists ==
  { <<Cell(0, 0, 0, RED)>>,
    <<Cell(0, 0, 0, RED), Cell(1, 0, 0, BLUE)>> }

DrawInit ==
  /\ \E data \in DrawLists : voxels = CreateVoxels(data) /\ arg = data
  /\ rebuildTargets = <<>>
  /\ rebuildStartTime = 0
  /\ state = STABLE
  /\ now = 0
  /\ appState = STABLE
  /\ voxelCount = Len(voxels)
  /\ op = "loadInitialModel"
  /\ notes = <<STABLE>>
  /\ scatterTicks = 0
  /\ commands = 0
  /\ PickerConstructed
  /\ FirstDrawn

DrawNext ==
  \/ ToggleRotation
  \/ ToggleEdit
  \/ Dismantle
  \/ \E targetModel \in TargetLists : Rebuild(targetModel)
  \/ Tick
  \/ ClockAdvance

DrawSpec == DrawInit /\ [][DrawNext]_vars

----------------------------------------------------------------------------
(* Properties *)

\* a step that is a call of the public operation `name`
CallOf(name) == commands' # commands /\ op' = name

Velocities(v) == <<v.vx, v.vy, v.vz, v.rvx, v.rvy, v.rvz>>
Pose(v) == <<v.x, v.y, v.z, v.rx, v.ry, v.rz>>
Coords(t) == <<t.x, t.y, t.z>>

\* C1: dismantle() called in Dismantling or Rebuilding changes neither the
\* state, nor any voxel's velocity or angular velocity, nor the rebuild
\* target table, and fires no state notification; called in Stable it
\* leaves the state Dismantling.
C1_DismantleOnlyFromStable ==
  [][CallOf("dismantle") =>
       IF state # STABLE
       THEN /\ state' = state
            /\ rebuildTargets' = rebuildTargets
            /\ Len(voxels') = Len(voxels)
            /\ \A i \in 1..Len(voxels) : Velocities(voxels'[i]) = Velocities(voxels[i])
            /\ notes' = <<>>
       ELSE state' = DISMANTLING]_vars

\* C1 witness: dismantle() has just been ignored during a rebuild of a
\* non-empty store
C1_Witness ==
  /\ op = "dismantle"
  /\ notes = <<>>
  /\ state = REBUILDING
  /\ Len(voxels) > 0

\* C2: rebuild(target) called in Stable or Dismantling leaves the engine
\* Rebuilding, with the call time as start time and a table computed from
\* this call's voxels and target (one entry per voxel: rubble at the voxel's
\* own coordinates, or matched to the coordinates of a cell of the target),
\* and notifies; called in Rebuilding it changes neither the table, nor the
\* start time, nor the state, nor the voxels, and does not notify.
C2_RebuildNotRetargeted ==
  [][CallOf("rebuild") =>
       IF state = REBUILDING
       THEN /\ UNCHANGED <<rebuildTargets, rebuildStartTime, state, voxels>>
            /\ notes' = <<>>
       ELSE /\ state' = REBUILDING
            /\ rebuildStartTime' = now'
            /\ Len(rebuildTargets') = Len(voxels)
            /\ \A i \in 1..Len(voxels) :
                 IF rebuildTargets'[i].isRubble
                 THEN Coords(rebuildTargets'[i]) = Coords(voxels[i])
                 ELSE \E j \in 1..Len(arg') :
                        Coords(rebuildTargets'[i]) = Coords(arg'[j])
            /\ notes' = <<REBUILDING>>]_vars

\* C2 witness: rebuild() has just been ignored after the clock moved past the
\* recorded start time
C2_Witness ==
  /\ op = "rebuild"
  /\ notes = <<>>
  /\ state = REBUILDING
  /\ now > rebuildStartTime
  /\ Len(rebuildTargets) > 0

ZeroMotion(v) ==
  /\ Velocities(v) = <<0, 0, 0, 0, 0, 0>>
  /\ <<v.rx, v.ry, v.rz>> = <<0, 0, 0>>

\* C3: right after loadInitialModel(data), whatever the state was, the state
\* is Stable and the store holds exactly one voxel per entry of data, with
\* ids 0..n-1 in input order, the entry's coordinates and colour, and all
\* velocities, rotations and angular velocities zero.
C3_LoadResets ==
  op = "loadInitialModel" =>
    /\ state = STABLE
    /\ Len(voxels) = Len(arg)
    /\ \A i \in 1..Len(arg) :
         /\ voxels[i].id = i - 1
         /\ <<voxels[i].x, voxels[i].y, voxels[i].z>> = <<arg[i].x, arg[i].y, arg[i].z>>
         /\ GetHex(voxels[i].color) = arg[i].color
         /\ ZeroMotion(voxels[i])

\* C4 (as claimed): onStateChange fires once on every step that changes the
\* state value and on no step that leaves it the same.
C4_NotifyExactlyOnChange ==
  [][IF state' # state THEN notes' = <<state'>> ELSE notes' = <<>>]_vars

\* C4 (amended): onStateChange fires once, with the new value, on every step
\* that changes the state value; on a step that leaves it the same it fires
\* only inside loadInitialModel (called directly, or by an addVoxel or
\* removeVoxel that changes the store), and then delivers Stable.
C4_NotifyOnChangeOrLoad ==
  [][IF state' # state THEN notes' = <<state'>>
     ELSE \/ notes' = <<>>
          \/ /\ notes' = <<STABLE>>
             /\ state' = STABLE
             /\ \/ CallOf("loadInitialModel")
                \/ /\ CallOf("addVoxel") \/ CallOf("removeVoxel")
                   /\ Len(voxels') # Len(voxels)]_vars

\* C4 witness: a model has been loaded while the engine was already Stable,
\* and Stable was delivered again
C4_Witness ==
  /\ op = "loadInitialModel"
  /\ commands = 1
  /\ notes = <<STABLE>>

----------------------------------------------------------------------------
(* Properties of the matcher, read off the table rebuild() stored.  In     *)
(* MatchSpec the target cells have distinct coordinates, so the source of  *)
(* target j is the voxel whose entry carries the coordinates of arg[j].    *)

SourcesOf(j) ==
  {i \in 1..Len(rebuildTargets) :
     ~rebuildTargets[i].isRubble /\ Coords(rebuildTargets[i]) = Coords(arg[j])}

Rubble == {i \in 1..Len(rebuildTargets) : rebuildTargets[i].isRubble}

Matched == Min(Len(arg), Len(voxels))

\* C5: after rebuild(T) over voxels V, each of the first min(|T|,|V|) cells
\* of T has exactly one source voxel, no later cell of T has one, and exactly
\* |V| - min(|T|,|V|) voxels are rubble.
C5_OneToOnePrefix ==
  state = REBUILDING =>
    /\ Len(rebuildTargets) = Len(voxels)
    /\ \A j \in 1..Len(arg) :
         Cardinality(SourcesOf(j)) = IF j <= Matched THEN 1 ELSE 0
    /\ Cardinality(Rubble) = Len(voxels) - Matched

\* C5 witness: more target cells than voxels, and at least two voxels
C5_Witness ==
  /\ state = REBUILDING
  /\ Len(voxels) >= 2
  /\ Len(arg) > Len(voxels)

PickOf(j) == CHOOSE i \in SourcesOf(j) : TRUE

\* the sources not taken when target j is processed
Untaken(j) == (1..Len(voxels)) \ {PickOf(q) : q \in 1..(j - 1)}

DistTo(i, j) == ColorDistSq(voxels[i].color, arg[j].color)

IsLowestMinimum(p, j) ==
  \A i \in Untaken(j) :
    DistTo(p, j) < DistTo(i, j) \/ (DistTo(p, j) = DistTo(i, j) /\ p <= i)

NearExact(j) == {i \in Untaken(j) : DistTo(i, j) < NEAR_EXACT_SQ}

\* C6 (as claimed): every target's source is, among the sources not yet
\* taken, one of minimum colour distance, the lowest index among those.
C6_PicksMinimum ==
  state = REBUILDING =>
    \A j \in 1..Matched : PickOf(j) \in Untaken(j) /\ IsLowestMinimum(PickOf(j), j)

\* C6 (amended): every target's source is, among the sources not yet taken,
\* the lowest-index one within 0.01 of the target colour if there is one, and
\* otherwise one of minimum colour distance, the lowest index among those.
C6_PicksFirstNearExactOrMinimum ==
  state = REBUILDING =>
    \A j \in 1..Matched :
      /\ PickOf(j) \in Untaken(j)
      /\ IF NearExact(j) # {}
         THEN PickOf(j) \in NearExact(j) /\ \A i \in NearExact(j) : PickOf(j) <= i
         ELSE IsLowestMinimum(PickOf(j), j)

\* C6 witness: a target took a near-exact source although an untaken source
\* was strictly closer
C6_Witness ==
  /\ state = REBUILDING
  /\ \E j \in 1..Matched : \E i \in Untaken(j) : DistTo(i, j) < DistTo(PickOf(j), j)

\* a matcher that always scans all sources: the table, and whether no
\* untaken source was within 0.01 of the target being processed
LowestMinimum(available, taken, hex) ==
  LET U == (1..Len(available)) \ taken
  IN  IF U = {} THEN 0
      ELSE CHOOSE p \in U :
             \A i \in U :
               \/ ColorDistSq(available[p], hex) < ColorDistSq(available[i], hex)
               \/ /\ ColorDistSq(available[p], hex) = ColorDistSq(available[i], hex)
                  /\ p <= i

RECURSIVE FullScanFrom(_, _, _, _, _)
FullScanFrom(available, targetModel, j, m, clean) ==
  IF j > Len(targetModel) THEN [m |-> m, clean |-> clean]
  ELSE LET p == LowestMinimum(available, DOMAIN m, targetModel[j].color)
           c == \A i \in (1..Len(available)) \ DOMAIN m :
                  ColorDistSq(available[i], targetModel[j].color) >= NEAR_EXACT_SQ
       IN  IF p # 0
           THEN FullScanFrom(available, targetModel, j + 1,
                             m @@ (p :> MatchedTarget(targetModel[j])), clean /\ c)
           ELSE FullScanFrom(available, targetModel, j + 1, m, clean /\ c)

FullScan ==
  FullScanFrom([i \in 1..Len(voxels) |-> voxels[i].color], arg, 1, <<>>, TRUE)

FullScanTable ==
  [i \in 1..Len(voxels) |->
     IF i \in DOMAIN FullScan.m THEN FullScan.m[i] ELSE RubbleTarget(voxels[i])]

\* C7: when no untaken source is within 0.01 of the target being processed,
\* the table rebuild() stores is the table of the matcher that always scans
\* all sources.
C7_EarlyExitEquivalent ==
  (state = REBUILDING /\ FullScan.clean) => rebuildTargets = FullScanTable

\* C7 witness: no near-exact source anywhere, two targets matched, and the
\* first target's source is not the first voxel (the scan went on past it)
C7_Witness ==
  /\ state = REBUILDING
  /\ FullScan.clean
  /\ Matched >= 2
  /\ PickOf(1) # 1

----------------------------------------------------------------------------
(* Properties of the Rebuilding phase *)

\* C8: rebuild() moves no voxel, and as long as the engine stays in that
\* Rebuilding phase no frame and no ignored call changes the position or
\* rotation of a voxel whose entry is rubble.
C8_RubbleStays ==
  [][/\ (state # REBUILDING /\ state' = REBUILDING) => voxels' = voxels
     /\ (state = REBUILDING /\ Len(voxels') = Len(voxels)
           /\ ~(CallOf("loadInitialModel") \/ CallOf("addVoxel") \/ CallOf("removeVoxel")))
        => \A i \in 1..Len(voxels) :
             rebuildTargets[i].isRubble => Pose(voxels'[i]) = Pose(voxels[i])]_vars

\* C8 witness: during a rebuild, after a frame, a rubble voxel lies rotated
\* where the scatter left it while a matched voxel is on its way
C8_Witness ==
  /\ state = REBUILDING
  /\ op = "tick"
  /\ \E i \in 1..Len(voxels) :
       /\ rebuildTargets[i].isRubble
       /\ voxels[i].rx # 0
       /\ Coords(voxels[i]) = Coords(rebuildTargets[i])
  /\ \E i \in 1..Len(voxels) :
       /\ ~rebuildTargets[i].isRubble
       /\ Coords(voxels[i]) # Coords(rebuildTargets[i])

\* C9: a frame that takes the engine from Rebuilding to Stable leaves every
\* matched voxel exactly on its target with rotation (0,0,0); and a frame run
\* while every entry of the table is rubble (or the store is empty) always
\* takes the engine to Stable.
C9_CompletionExact ==
  [][(state = REBUILDING /\ op' = "tick" /\ commands' = commands) =>
       /\ state' = STABLE =>
            \A i \in 1..Len(voxels) :
              ~rebuildTargets[i].isRubble =>
                Pose(voxels'[i]) = <<rebuildTargets[i].x, rebuildTargets[i].y,
                                     rebuildTargets[i].z, 0, 0, 0>>
       /\ (\A i \in 1..Len(voxels) : rebuildTargets[i].isRubble) => state' = STABLE]_vars

\* C9 witness: a frame has just completed a rebuild that matched a voxel and
\* left another as rubble
C9_Witness ==
  /\ state = STABLE
  /\ op = "tick"
  /\ notes = <<STABLE>>
  /\ \E i \in 1..Len(voxels) :
       ~rebuildTargets[i].isRubble /\ Coords(voxels[i]) = Coords(rebuildTargets[i])
  /\ \E i \in 1..Len(voxels) : rebuildTargets[i].isRubble

\* C10: under fair frames and a fair clock, a Rebuilding phase always ends in
\* Stable.
C10_RebuildTerminates == (state = REBUILDING) ~> (state = STABLE)


\* under the same fairness, every rebuild whose table holds only finite
\* delays does end: the run that never ends is the one of the infinite delay
FiniteRebuildTerminates ==
  (state = REBUILDING
     /\ \A i \in 1..Len(rebuildTargets) : rebuildTargets[i].delay # Infinity)
  ~> (state = STABLE)

----------------------------------------------------------------------------
(* Properties of the Dismantling phase *)

Abs(n) == IF n >= 0 THEN n ELSE -n

\* what is left of a velocity at rest: less than half of what gravity adds
\* in one frame
REST_EPS == GRAVITY \div 2

\* the voxel lies on the floor and every velocity is within REST_EPS of zero
AtRest(v) ==
  /\ v.y = FLOOR_Y + HALF_VOXEL
  /\ \A c \in {v.vx, v.vy, v.vz, v.rvx, v.rvy, v.rvz} : Abs(c) <= REST_EPS

AllAtRest == \A i \in 1..Len(voxels) : AtRest(voxels[i])

\* C11: a frame run in Dismantling leaves the state Dismantling and notifies
\* nothing, however long the voxels have lain still; the only steps that
\* take the engine out of Dismantling are a rebuild() call, a
\* loadInitialModel() call, and an addVoxel() or removeVoxel() call that
\* changes the store.
C11_DismantlingLeftOnlyByCall ==
  [][/\ (state = DISMANTLING /\ op' = "tick" /\ commands' = commands)
          => (state' = DISMANTLING /\ notes' = <<>>)
     /\ (state = DISMANTLING /\ state' # DISMANTLING)
          => \/ CallOf("rebuild")
             \/ CallOf("loadInitialModel")
             \/ /\ CallOf("addVoxel") \/ CallOf("removeVoxel")
                /\ Len(voxels') # Len(voxels)]_vars

\* C11 witness: frames have run until every voxel of a non-empty store lies
\* at rest, and the state is still Dismantling
C11_Witness ==
  /\ state = DISMANTLING
  /\ op = "tick"
  /\ Len(voxels) > 0
  /\ AllAtRest
  /\ scatterTicks >= MaxSettleTicks

----------------------------------------------------------------------------
(* Properties of the store *)

\* C14: right after loadInitialModel(D), getVoxelData() has the length of D
\* and its i-th entry has the coordinates and the colour of D[i]; and in
\* every state getVoxelData() has one entry per voxel of the store, carrying
\* that voxel's current coordinates and colour.
C14_RoundTrip ==
  LET snap == GetVoxelData(voxels)
  IN  /\ op = "loadInitialModel" =>
           /\ Len(snap) = Len(arg)
           /\ \A i \in 1..Len(arg) :
                Coords(snap[i]) = Coords(arg[i]) /\ snap[i].color = arg[i].color
      /\ Len(snap) = Len(voxels)
      /\ \A i \in 1..Len(voxels) :
           Coords(snap[i]) = Coords(voxels[i]) /\ ColorOfHex(snap[i].color) = voxels[i].color

\* C14 witness: a list of two cells, one with three different colour
\* channels and fractional coordinates, has been loaded by the second call
\* made to the engine
C14_Witness ==
  /\ op = "loadInitialModel"
  /\ commands = 2
  /\ Len(arg) = 2
  /\ arg[2].x = -1500
  /\ GetVoxelData(voxels)[2].color = 18 * 65536 + 52 * 256 + 86

At(pos) == {i \in 1..Len(voxels) : Coords(voxels[i]) = Coords(pos)}

NothingChanged ==
  /\ voxels' = voxels
  /\ voxelCount' = voxelCount
  /\ state' = state
  /\ notes' = <<>>

C16_RemoveExactOrIgnores ==
  [][\A pos \in EditPicks :
       RemoveVoxel(pos) =>
         IF At(pos) = {} THEN NothingChanged
         ELSE LET kept == SelectSeq(GetVoxelData(voxels),
                                    LAMBDA d : Coords(d) # Coords(pos))
              IN  /\ GetVoxelData(voxels') = kept
                  /\ \A i \in 1..Len(voxels') : voxels'[i].id = i - 1]_vars

\* C16 witness: both voxels at (0,0,0) have been removed from a store of
\* three, and the blue voxel that stood between them is left with id 0
C16_Witness ==
  /\ op = "removeVoxel"
  /\ commands = 1
  /\ notes = <<STABLE>>
  /\ arg = <<Cell(1, 0, 0, BLUE)>>
  /\ Len(voxels) = 1
  /\ voxels[1].id = 0
  /\ voxelCount = 1

----------------------------------------------------------------------------
(* Properties of the shape producers *)

\* the record carries no colour: neither c nor color is a number or a
\* string that begins with a hex digit (after an optional #)
NoColor(v) ==
  \A cv \in {v.c, v.color} :
    /\ cv.t # "number"
    /\ cv.t = "string" => ParseInt16(StripHash(cv.s)) = NaN

\* the record carries no coordinate under that key: it is neither a number
\* nor a string of digits
NoCoordinate(cv) ==
  \/ cv.t \in {"undefined", "null"}
  \/ cv.t = "string" /\ ToNumber(cv) = NaN

\* what the claim asks of the voxel loaded for the array element v
Coerced(v, voxel) ==
  /\ NoColor(v) => GetHex(voxel.color) = GRAY
  /\ NoCoordinate(v.x) => voxel.x = 0
  /\ NoCoordinate(v.y) => voxel.y = 0
  /\ NoCoordinate(v.z) => voxel.z = 0

\* C17: on the JSON-import path and on the generation path (creating a
\* scene), every batch is loaded with one voxel per array element, a record
\* without a valid colour as neutral gray and a missing or invalid
\* coordinate as 0.
C17_BatchNeverRejected ==
  [][\A rawData \in RawBatches :
       (HandleJsonImport(rawData) \/ HandlePromptSubmit(rawData, "create")) =>
         /\ Len(voxels') = Len(rawData)
         /\ \A i \in 1..Len(rawData) : Coerced(rawData[i], voxels'[i])]_vars

\* what does hold: handleJsonImport loads every batch that has no null
\* element, coerced as claimed
JsonImportCoercesObjects ==
  [][\A rawData \in RawBatches :
       (HandleJsonImport(rawData) /\ \A i \in 1..Len(rawData) : rawData[i].t # "null") =>
         /\ Len(voxels') = Len(rawData)
         /\ \A i \in 1..Len(rawData) : Coerced(rawData[i], voxels'[i])]_vars

----------------------------------------------------------------------------
(* Properties of the picker *)

\* C18: when updateGhost, called in edit mode with the delete tool, finds
\* the floor as nearest intersection, getGhostPosition() returns null after
\* it; and a click made while getGhostPosition() returns null changes
\* neither the voxels, nor the count, nor the state.
C18_FloorIsNoDeleteTarget ==
  [][/\ (op' = "updateGhost" /\ buildTool' = "delete" /\ hitKind' = "floor")
          => GetGhostPosition' = {}
     /\ (GetGhostPosition = {} /\ commands' # commands) => NothingChanged]_vars

\* C18 witness: with the delete tool the ghost stood on a voxel, the pointer
\* then moved onto the floor, and the click that followed removed nothing
C18_Witness ==
  /\ op = "handleClick"
  /\ isEditMode
  /\ buildTool = "delete"
  /\ hitKind = "floor"
  /\ ~ghostVisible
  /\ At(lastGhostPos) # {}
  /\ Len(voxels) = Len(arg)

----------------------------------------------------------------------------
(* Properties of the target table *)

\* C19: whenever the state is Rebuilding, the target table has one entry
\* per voxel of the store and is the table the matcher computes for that
\* store and the target of the last accepted rebuild() (matched entries
\* depend on the colours only, and rubble entries on the positions of
\* voxels that do not move).
C19_TableMatchesStore ==
  state = REBUILDING =>
    /\ Len(rebuildTargets) = Len(voxels)
    /\ rebuildTargets = Mappings(voxels, arg)

\* what does hold: the same, as long as the store is not empty
TableMatchesNonEmptyStore ==
  (state = REBUILDING /\ Len(voxels) > 0) =>
    /\ Len(rebuildTargets) = Len(voxels)
    /\ rebuildTargets = Mappings(voxels, arg)

\* the matched voxels whose start delay has not elapsed
Waiting ==
  {i \in 1..Len(voxels) :
     /\ ~rebuildTargets[i].isRubble
     /\ BeforeDelay(now - rebuildStartTime, rebuildTargets[i].delay)}

\* C20: a frame run in Rebuilding leaves the position and the rotation of
\* every matched voxel whose start delay has not elapsed as they were, and
\* if there is such a voxel the frame leaves the state Rebuilding.
C20_WaitsForDelay ==
  [][(state = REBUILDING /\ op' = "tick" /\ commands' = commands) =>
       /\ \A i \in Waiting : Pose(voxels'[i]) = Pose(voxels[i])
       /\ Waiting # {} => (state' = REBUILDING /\ notes' = <<>>)]_vars

\* C20 witness: after a frame of a rebuild, a voxel whose delay has not
\* elapsed is still away from its target while a voxel with no delay has
\* moved below where every store of the model starts
C20_Witness ==
  /\ state = REBUILDING
  /\ op = "tick"
  /\ \E i \in Waiting :
       /\ rebuildTargets[i].delay # Infinity
       /\ Coords(voxels[i]) # Coords(rebuildTargets[i])
  /\ \E k \in 1..Len(voxels) :
       /\ ~rebuildTargets[k].isRubble
       /\ rebuildTargets[k].delay = 0
       /\ voxels[k].y < 0

----------------------------------------------------------------------------
(* Properties of the start delays *)

MatchedEntries == {i \in 1..Len(rebuildTargets) : ~rebuildTargets[i].isRubble}

\* delay (kept in 1 / (15 * Scale) ms) as a number of whole milliseconds,
\* rounded down
DelayMs(t) == t.delay \div (HEIGHT_NORM * Scale)

\* C12: in the table rebuild() stores, the start delay of every matched
\* entry is max(0, (y - FLOOR_Y) / 15) * 800 ms for the entry's target
\* height y: never negative, 0 when y is at or below the floor level, 800 ms
\* at 15 above the floor, and no larger for a lower target than for a higher
\* one.
C12_DelayFormula ==
  state = REBUILDING =>
    /\ \A i \in MatchedEntries :
         LET t == rebuildTargets[i]
         IN  /\ t.delay >= 0
             /\ t.y <= FLOOR_Y => t.delay = 0
             /\ t.y > FLOOR_Y =>
                  t.delay = (t.y - FLOOR_Y) * MAX_DELAY_MS
             /\ t.y = FLOOR_Y + HEIGHT_NORM * Scale => DelayMs(t) = MAX_DELAY_MS
    /\ \A i, k \in MatchedEntries :
         rebuildTargets[i].y <= rebuildTargets[k].y
           => rebuildTargets[i].delay <= rebuildTargets[k].delay

\* C12 witness: one table holds a target below the floor with delay 0, a
\* target on the floor with delay 0, and a higher target with a positive
\* delay
C12_Witness ==
  /\ state = REBUILDING
  /\ \E i, k, l \in MatchedEntries :
       /\ rebuildTargets[i].y < FLOOR_Y /\ rebuildTargets[i].delay = 0
       /\ rebuildTargets[k].y = FLOOR_Y /\ rebuildTargets[k].delay = 0
       /\ rebuildTargets[l].y > FLOOR_Y /\ rebuildTargets[l].delay > 0

\* the height at which a voxel lies on the floor
FLOOR_LEVEL == FLOOR_Y + HALF_VOXEL

\* C22: after every frame run in Dismantling, every voxel's y is at least
\* FLOOR_Y + 0.5, whatever its height and velocity were before the frame;
\* this includes a voxel that was loaded below that height and a voxel
\* that falls fast enough to pass the floor within one frame.
C22_FloorClamp ==
  [][ScatterFrame => \A i \in 1..Len(voxels') : voxels'[i].y >= FLOOR_LEVEL]_vars

\* C22 witness: the first frame of a scatter has lifted a voxel that was
\* loaded below FLOOR_Y + 0.5 onto the floor
C22_Witness ==
  /\ state = DISMANTLING
  /\ op = "tick"
  /\ scatterTicks = 1
  /\ \E i \in 1..Len(voxels) :
       /\ i <= Len(arg)
       /\ arg[i].y < FLOOR_LEVEL
       /\ voxels[i].y = FLOOR_LEVEL

\* the voxel is the same particle: index and colour
Same(v, w) == v.id = w.id /\ v.color = w.color

\* w is v after gravity, integration and the floor rule, and after nothing
\* else
Scattered(v, w) ==
  LET vy1 == v.vy - GRAVITY
      bounced == v.y + vy1 < FLOOR_LEVEL
  IN  /\ Same(v, w)
      /\ <<w.x, w.z>> = <<v.x + v.vx, v.z + v.vz>>
      /\ <<w.rx, w.ry, w.rz>> = <<v.rx + v.rvx, v.ry + v.rvy, v.rz + v.rvz>>
      /\ w.y = Max(v.y + vy1, FLOOR_LEVEL)
      /\ IF bounced
         THEN /\ w.vy = Trunc(-vy1, 2)
              /\ <<w.vx, w.vz>> = <<Trunc(v.vx * 9, 10), Trunc(v.vz * 9, 10)>>
              /\ <<w.rvx, w.rvy, w.rvz>>
                   = <<Trunc(v.rvx * 8, 10), Trunc(v.rvy * 8, 10), Trunc(v.rvz * 8, 10)>>
         ELSE Velocities(w) = <<v.vx, vy1, v.vz, v.rvx, v.rvy, v.rvz>>

\* new is no farther from target than old was
NoFarther(old, new, target) == Abs(target - new) <= Abs(target - old)

\* w is v after the easing toward t, and after nothing else: velocities are
\* as they were, no coordinate has moved away from its target, no angle
\* away from zero
EasedOnly(v, w, t) ==
  /\ Same(v, w)
  /\ Velocities(w) = Velocities(v)
  /\ IF t.isRubble
     THEN Pose(w) = Pose(v)
     ELSE /\ NoFarther(v.x, w.x, t.x)
          /\ NoFarther(v.y, w.y, t.y)
          /\ NoFarther(v.z, w.z, t.z)
          /\ NoFarther(v.rx, w.rx, 0)
          /\ NoFarther(v.ry, w.ry, 0)
          /\ NoFarther(v.rz, w.rz, 0)

\* C21: what a frame does to the voxels is decided by the state alone.  In
\* Stable it changes no field of any voxel; in Dismantling it applies
\* gravity, integration and the floor rule and nothing else; in Rebuilding
\* it eases toward the targets and changes no linear or angular velocity.
\* No frame changes the number of voxels, an index or a colour.
C21_FrameGatedByState ==
  [][Tick =>
       /\ Len(voxels') = Len(voxels)
       /\ state = STABLE => voxels' = voxels
       /\ state = DISMANTLING =>
            \A i \in 1..Len(voxels) : Scattered(voxels[i], voxels'[i])
       /\ state = REBUILDING =>
            \A i \in 1..Len(voxels) :
               EasedOnly(voxels[i], voxels'[i], rebuildTargets[i])]_vars

\* C21 witness: a frame in Rebuilding has just eased a voxel that still
\* carries the velocities of the scatter before it
C21_Witness ==
  /\ op = "tick"
  /\ state = REBUILDING
  /\ \E i \in 1..Len(voxels) :
       /\ ~rebuildTargets[i].isRubble
       /\ ~BeforeDelay(now - rebuildStartTime, rebuildTargets[i].delay)
       /\ voxels[i].vx # 0
       /\ voxels[i].rvx # 0
       /\ Coords(voxels[i]) # Coords(rebuildTargets[i])

\* the call left the engine Stable with the voxels `kept` standing where
\* they were when it was made, every velocity, rotation and angular
\* velocity zero
Frozen(kept) ==
  /\ state' = STABLE
  /\ \A i \in 1..Len(kept) : Coords(voxels'[i]) = Coords(kept[i])
  /\ \A i \in 1..Len(voxels') : ZeroMotion(voxels'[i])

\* the phase goes on as if the call had not been made
PhaseUntouched ==
  /\ NothingChanged
  /\ UNCHANGED <<rebuildTargets, rebuildStartTime, scatterTicks, now>>

\* C23: addVoxel or removeVoxel called in Dismantling or Rebuilding, when it
\* changes the store, leaves the engine Stable with the surviving voxels
\* frozen where they were (in mid-flight or not) and all their velocities,
\* rotations and angular velocities zero; when it changes nothing, the
\* phase goes on untouched.
C23_EditAbandonsPhase ==
  [][/\ \A pos \in EditPicks, colorHex \in EditColors :
          (state # STABLE /\ AddVoxel(pos, colorHex)) =>
            IF At(pos) # {} THEN PhaseUntouched ELSE Frozen(voxels)
     /\ \A pos \in EditPicks :
          (state # STABLE /\ RemoveVoxel(pos)) =>
            IF At(pos) = {} THEN PhaseUntouched
            ELSE Frozen(SelectSeq(voxels, LAMBDA v : Coords(v) # Coords(pos)))]_vars

\* the same, for every edit that leaves at least one voxel
EditAbandonsPhaseUnlessEmptied ==
  [][/\ \A pos \in EditPicks, colorHex \in EditColors :
          (state # STABLE /\ AddVoxel(pos, colorHex)) =>
            IF At(pos) # {} THEN PhaseUntouched ELSE Frozen(voxels)
     /\ \A pos \in EditPicks :
          (state # STABLE /\ RemoveVoxel(pos) /\ Len(voxels') > 0) =>
            IF At(pos) = {} THEN PhaseUntouched
            ELSE Frozen(SelectSeq(voxels, LAMBDA v : Coords(v) # Coords(pos)))]_vars

\* an edit has frozen a voxel in mid-flight: it stands at a position that
\* is no cell of the grid, at rest, in Stable
FrozenMidFlight ==
  /\ op \in {"addVoxel", "removeVoxel"}
  /\ notes = <<STABLE>>
  /\ state = STABLE
  /\ \E i \in 1..Len(voxels) :
       /\ ZeroMotion(voxels[i])
       /\ \E c \in {voxels[i].x, voxels[i].y, voxels[i].z} : c % Scale # 0

\* C25: the observer's mirror agrees with the engine in every reachable
\* state: the state last delivered through onStateChange is the engine's
\* state, and the count last delivered through onCountChange is the number
\* of voxels in the store.
C25_MirrorAgrees ==
  /\ appState = state
  /\ voxelCount = Len(voxels)

\* the state half of the mirror, and the count half for a non-empty store
MirrorAgreesOnNonEmptyStore ==
  /\ appState = state
  /\ Len(voxels) > 0 => voxelCount = Len(voxels)

\* C26: getGhostPosition() returns a coordinate only if the most recent
\* updateGhost since edit mode was last enabled found a valid target, and
\* then it returns that snapped coordinate; so a click changes the store
\* only at a coordinate that such a pick has found.
C26_PickIsLastTarget ==
  [][/\ GetGhostPosition' \subseteq picked'
     /\ (HandleClick(GRAY) /\ voxels' # voxels) => lastGhostPos \in picked]_vars

\* right after every pick computation, getGhostPosition() returns the
\* target it found, or nothing if it found none
PickReportedAfterUpdateGhost ==
  [][op' = "updateGhost" => GetGhostPosition' = picked']_vars

\* a click has removed the voxel at the origin although no pick had found
\* a target since edit mode was enabled
RemovedAtDefaultCoordinate ==
  /\ op = "removeVoxel"
  /\ picked = {}
  /\ lastGhostPos = Origin
  /\ Len(voxels) < Len(arg) + 1
  /\ notes = <<STABLE>>

\* C24: at the end of every frame the pose that draw() uploaded last is the
\* pose every voxel has: no frame changes a voxel without drawing the
\* change.  This includes the frame that snaps the last voxels onto their
\* targets and returns to Stable while the camera does not rotate and edit
\* mode is off.
C24_DrawnIsCurrent ==
  [][Tick => drawn' = Draw(voxels')]_vars

\* Every frame that starts from a current upload ends with one, unless it
\* is the last frame of a rebuild with the camera paused and edit mode off;
\* and every frame run outside Stable, or with the camera rotating or edit
\* mode on, ends with a current upload.
DrawnIsCurrentUnlessCompleting ==
  [][/\ (Tick /\ drawn = Draw(voxels) /\ (state' = state \/ autoRotate \/ isEditMode))
        => drawn' = Draw(voxels')
     /\ (Tick /\ (state' # STABLE \/ autoRotate \/ isEditMode))
        => drawn' = Draw(voxels')]_vars

\* the last frame of a rebuild has snapped a voxel onto its target and the
\* snap has not been drawn
SnapNotDrawn ==
  /\ op = "tick"
  /\ notes = <<STABLE>>
  /\ ~autoRotate
  /\ ~isEditMode
  /\ \E i \in 1..Len(voxels) :
       /\ ~rebuildTargets[i].isRubble
       /\ Coords(voxels[i]) = Coords(rebuildTargets[i])
       /\ drawn[i].position # <<voxels[i].x, voxels[i].y, voxels[i].z>>

====
